---- MODULE Spec2Model ----
(***************************************************************************)
(* Rules engine of perpetu.ai: TurnEngine (processTurn, cycleScale),       *)
(* TravelEngine, the tier model and the seeded DiceEngine.                 *)
(*                                                                         *)
(* Objects that the code shares by reference and mutates in place are      *)
(* modelled as heaps: `events' holds the TimelineEvent objects and `cores' *)
(* the madraCore objects, and a character snapshot refers to them by       *)
(* index.  Everything the code only ever replaces (position, techniques,   *)
(* inventory, activity) is a plain value of the snapshot.                  *)
(*                                                                         *)
(* Numbers: coordinates are integers chosen so that the distances the      *)
(* engine compares are exact; madra is counted in thousandths of a point  *)
(* so that the 0.1% training growth is exact on the drawn values.          *)
(***************************************************************************)
EXTENDS Integers, Sequences, FiniteSets, TLC

VARIABLES world, chars, cores, events, out, log, cycles, gens, rolled, nrolls,
          walk, combat

vars == <<world, chars, cores, events, out, log, cycles, gens, rolled, nrolls,
          walk, combat>>

turnVars == <<world, chars, cores, events, out, log, cycles>>

diceVars == <<gens, rolled, nrolls>>

fieldVars == <<walk, combat>>

(***************************************************************************)
(* Bounds of the model                                                     *)
(***************************************************************************)
MaxTurn == 2

MaxCalls == 2

MaxCycles == 2

MaxRolls == 3

MaxMoves == 12

MaxActions == 3

\* Math.random() returns one of 0, 1/RandomSteps, ..., (RandomSteps - 1)/RandomSteps
RandomSteps == 4

(***************************************************************************)
(* Small helpers                                                           *)
(***************************************************************************)
Range(s) == {s[i] : i \in 1..Len(s)}

Min(a, b) == IF a <= b THEN a ELSE b

MaxSecond(a, b) == b

Max(a, b) == IF a >= b THEN a ELSE b

RECURSIVE SqrtSearch(_, _, _)
SqrtSearch(n, lo, hi) ==
    IF lo >= hi THEN lo
    ELSE LET mid == (lo + hi + 1) \div 2
         IN  IF mid * mid <= n THEN SqrtSearch(n, mid, hi)
             ELSE SqrtSearch(n, lo, mid - 1)

\* Math.sqrt on the model's integers (exact on perfect squares, floor otherwise)
Sqrt(n) == SqrtSearch(n, 0, 2048)

(***************************************************************************)
(* Tier model                                                              *)
(***************************************************************************)
ADVANCEMENT_TIER_LEVELS ==
    [Foundation |-> 0, Iron |-> 1, Jade |-> 2, LowGold |-> 3, HighGold |-> 4,
     TrueGold |-> 5, Underlord |-> 6, Overlord |-> 7, Archlord |-> 8,
     Herald |-> 9, Sage |-> 9, Monarch |-> 10]

\* Infinity, the travel speed of a Monarch
Infinity == 0

\* calculateTravelSpeed: the speed is 1/d of the map diagonal per turn; the
\* operator returns the divisor d, or Infinity
calculateTravelSpeed(tier) ==
    LET level == ADVANCEMENT_TIER_LEVELS[tier]
    IN  IF level >= 10 THEN Infinity
        ELSE IF level >= 8 THEN 2
        ELSE IF level >= 7 THEN 4
        ELSE IF level >= 6 THEN 8
        ELSE IF level >= 5 THEN 16
        ELSE IF level >= 3 THEN 32
        ELSE IF level >= 2 THEN 64
        ELSE IF level >= 1 THEN 128
        ELSE 256

(***************************************************************************)
(* Travel engine                                                           *)
(***************************************************************************)
calculateDistance(pos1, pos2) ==
    LET dx == pos2.x - pos1.x
        dy == pos2.y - pos1.y
    IN  Sqrt(dx * dx + dy * dy)

moveTowardOvershoot(character, targetPosition, mapDiagonal) ==
    LET travelSpeed == calculateTravelSpeed(character.advancementTier)
    IN  IF travelSpeed = Infinity THEN targetPosition
        ELSE LET maxMovement == mapDiagonal \div travelSpeed
                 currentDistance == calculateDistance(character.position, targetPosition)
             IN  IF currentDistance = 0 THEN targetPosition
                 ELSE [x |-> character.position.x
                             + ((targetPosition.x - character.position.x) * maxMovement)
                               \div currentDistance,
                       y |-> character.position.y
                             + ((targetPosition.y - character.position.y) * maxMovement)
                               \div currentDistance]

moveToward(character, targetPosition, mapDiagonal) ==
    LET travelSpeed == calculateTravelSpeed(character.advancementTier)
    IN  IF travelSpeed = Infinity THEN targetPosition
        ELSE LET maxMovement == mapDiagonal \div travelSpeed
                 currentDistance == calculateDistance(character.position, targetPosition)
             IN  IF currentDistance <= maxMovement THEN targetPosition
                 ELSE [x |-> character.position.x
                             + ((targetPosition.x - character.position.x) * maxMovement)
                               \div currentDistance,
                       y |-> character.position.y
                             + ((targetPosition.y - character.position.y) * maxMovement)
                               \div currentDistance]

\* calculatePerceptionRange: the range is 1/d of the map diagonal; the
\* operator returns the divisor d (1 for a Monarch, who sees 1.0 of it)
calculatePerceptionRange(tier) ==
    LET level == ADVANCEMENT_TIER_LEVELS[tier]
    IN  IF level >= 10 THEN 1
        ELSE IF level >= 8 THEN 2
        ELSE IF level >= 7 THEN 4
        ELSE IF level >= 6 THEN 8
        ELSE IF level >= 5 THEN 16
        ELSE IF level >= 3 THEN 32
        ELSE IF level >= 2 THEN 64
        ELSE IF level >= 1 THEN 128
        ELSE 256

\* distance <= mapDiagonal * perceptionRange, compared on the squares so that
\* no root has to be rounded
canPerceive(observer, target, mapDiagonal) ==
    LET dx == target.position.x - observer.position.x
        dy == target.position.y - observer.position.y
        maxDistance == mapDiagonal \div calculatePerceptionRange(observer.advancementTier)
    IN  dx * dx + dy * dy <= maxDistance * maxDistance

\* Math.ceil(a / b) for a >= 0 and b > 0
Ceil(a, b) == (a + b - 1) \div b

calculateTravelTime(character, from, to, mapDiagonal) ==
    LET travelSpeed == calculateTravelSpeed(character.advancementTier)
    IN  IF travelSpeed = Infinity THEN 0
        ELSE LET distance == calculateDistance(from, to)
                 maxMovementPerTurn == mapDiagonal \div travelSpeed
             IN  Ceil(distance, maxMovementPerTurn)

\* distance <= mapDiagonal * 0.01
canInteract(char1, char2, mapDiagonal) ==
    calculateDistance(char1.position, char2.position) * 100 <= mapDiagonal

\* allCharacters.filter(other => other.id !== character.id && canInteract(...))
findNearbyCharacters(character, allCharacters, mapDiagonal) ==
    SelectSeq(allCharacters,
              LAMBDA other : other.id # character.id
                             /\ canInteract(character, other, mapDiagonal))

(***************************************************************************)
(* Turn engine                                                             *)
(***************************************************************************)
\* madra amounts are counted in thousandths of a point
Points(n) == n * 1000

\* an amount of madra kept with its fraction of a point
FloorNot(amount) == amount

\* Math.floor of an amount of madra: down to a whole number of points
Floor(amount) == (amount \div Points(1)) * Points(1)

\* const currentTurn = world.currentTurn + 1
CurrentTurn(w) == w.currentTurn + 1

\* Math.sqrt(world.map.width ** 2 + world.map.height ** 2)
MapDiagonal(w) == Sqrt(w.map.width * w.map.width + w.map.height * w.map.height)

IsDueOffByOne(event, currentTurn) == event.turn + 1 = currentTurn /\ ~event.completed

\* event => event.turn === currentTurn && !event.completed
IsDue(event, currentTurn) == event.turn = currentTurn /\ ~event.completed

MarkCompletedNot(event) == event

\* event.completed = true, on the event object the timeline holds
MarkCompleted(event) == [event EXCEPT !.completed = TRUE]

\* a movement of two steps in one event
processMovementTwice(character, targetPosition, mapDiagonal) ==
    LET once == [character EXCEPT
                    !.position = moveToward(character, targetPosition, mapDiagonal)]
    IN  [character EXCEPT !.position = moveToward(once, targetPosition, mapDiagonal),
                          !.activity = "traveling"]

processMovement(character, targetPosition, mapDiagonal) ==
    [character EXCEPT !.position = moveToward(character, targetPosition, mapDiagonal),
                      !.activity = "traveling"]

\* a training that does not cap the proficiency
processTrainingUncapped(character, heap) ==
    LET core == heap[character.madraCore]
        updatedTechniques ==
            [i \in 1..Len(character.techniques) |->
                [character.techniques[i] EXCEPT !.proficiency = @ + 1]]
        capacityIncrease == core.maxMadra \div 1000
    IN  [character |-> [character EXCEPT !.techniques = updatedTechniques,
                                         !.madraCore = Len(heap) + 1,
                                         !.activity = "training"],
         cores |-> Append(heap, [core EXCEPT !.maxMadra = core.maxMadra + capacityIncrease])]

\* The result is the new snapshot and the heap holding its new madraCore object
processTraining(character, heap) ==
    LET core == heap[character.madraCore]
        updatedTechniques ==
            [i \in 1..Len(character.techniques) |->
                [character.techniques[i] EXCEPT !.proficiency = Min(100, @ + 1)]]
        capacityIncrease == core.maxMadra \div 1000
    IN  [character |-> [character EXCEPT !.techniques = updatedTechniques,
                                         !.madraCore = Len(heap) + 1,
                                         !.activity = "training"],
         cores |-> Append(heap, [core EXCEPT !.maxMadra = core.maxMadra + capacityIncrease])]

\* switch (event.action) of processTurn
DispatchEvent(updated, heap, event, mapDiagonal) ==
    IF event.action = "move" /\ event.hasTarget
    THEN [character |-> processMovement(updated, event.targetLocation, mapDiagonal),
          cores |-> heap]
    ELSE IF event.action = "train"
    THEN processTraining(updated, heap)
    ELSE [character |-> updated, cores |-> heap]

RECURSIVE ProcessDueEvents(_, _, _, _, _)
\* for (const event of dueEvents) { ... }
ProcessDueEvents(acc, character, dueEvents, currentTurn, mapDiagonal) ==
    IF dueEvents = <<>> THEN acc
    ELSE LET e == Head(dueEvents)
             event == acc.events[e]
             d == DispatchEvent(acc.updated, acc.cores, event, mapDiagonal)
             next ==
                 [updated |-> d.character,
                  cores |-> d.cores,
                  events |-> [acc.events EXCEPT ![e] = MarkCompleted(@)],
                  triggeredEvents |-> Append(acc.triggeredEvents, e),
                  worldEvents |-> Append(acc.worldEvents,
                      [id |-> <<"event", currentTurn, character.id, e>>,
                       turn |-> currentTurn,
                       type |-> IF event.action = "combat" THEN "combat" ELSE "custom",
                       involvedCharacterIds |-> <<character.id>>,
                       location |-> d.character.position])]
         IN  ProcessDueEvents(next, character, Tail(dueEvents), currentTurn, mapDiagonal)

\* Regenerate madra (5% per turn while resting): writes the madraCore object
\* that `updated' shares with the snapshot it was spread from
RegenerateMadra(updated, heap) ==
    IF updated.activity = "resting"
    THEN LET core == heap[updated.madraCore]
             regenAmount == Floor((core.maxMadra * 5) \div 100)
         IN  [heap EXCEPT ![updated.madraCore].currentMadra =
                              Min(core.maxMadra, core.currentMadra + regenAmount)]
    ELSE heap

NearbyPoolUpdated(characters, updatedCharacters) ==
    [i \in 1..Len(characters) |->
        IF \E j \in 1..Len(updatedCharacters) : updatedCharacters[j].id = characters[i].id
        THEN LET j == CHOOSE j \in 1..Len(updatedCharacters) :
                          updatedCharacters[j].id = characters[i].id
             IN  updatedCharacters[j]
        ELSE characters[i]]

\* the list handed to findNearbyCharacters: the characters as supplied
NearbyPool(characters, updatedCharacters) == characters

\* body of for (const character of characters) { ... }
ProcessCharacter(st, character, characters, currentTurn, mapDiagonal) ==
    LET dueEvents == SelectSeq(character.timeline,
                               LAMBDA e : IsDue(st.events[e], currentTurn))
        acc == ProcessDueEvents([updated |-> character,
                                 cores |-> st.cores,
                                 events |-> st.events,
                                 triggeredEvents |-> st.triggeredEvents,
                                 worldEvents |-> st.worldEvents],
                                character, dueEvents, currentTurn, mapDiagonal)
        updated == acc.updated
        heap == RegenerateMadra(updated, acc.cores)
        nearby == findNearbyCharacters(updated,
                                       NearbyPool(characters, st.updatedCharacters),
                                       mapDiagonal)
        encounter == [id |-> <<"encounter", currentTurn, character.id>>,
                      turn |-> currentTurn,
                      type |-> "interaction",
                      involvedCharacterIds |->
                          <<character.id>> \o [i \in 1..Len(nearby) |-> nearby[i].id],
                      location |-> updated.position]
    IN  [cores |-> heap,
         events |-> acc.events,
         updatedCharacters |-> Append(st.updatedCharacters, updated),
         triggeredEvents |-> acc.triggeredEvents,
         worldEvents |-> IF Len(nearby) > 0 /\ updated.activity # "combat"
                         THEN Append(acc.worldEvents, encounter)
                         ELSE acc.worldEvents]

RECURSIVE ProcessCharacters(_, _, _, _, _)
ProcessCharacters(st, i, characters, currentTurn, mapDiagonal) ==
    IF i > Len(characters) THEN st
    ELSE ProcessCharacters(
             ProcessCharacter(st, characters[i], characters, currentTurn, mapDiagonal),
             i + 1, characters, currentTurn, mapDiagonal)

\* TurnEngine.processTurn(world, characters), on the heaps the snapshots point
\* into; the world object is only read
processTurn(w, characters, heapCores, heapEvents) ==
    ProcessCharacters([cores |-> heapCores,
                       events |-> heapEvents,
                       updatedCharacters |-> <<>>,
                       triggeredEvents |-> <<>>,
                       worldEvents |-> <<>>],
                      1, characters, CurrentTurn(w), MapDiagonal(w))

(***************************************************************************)
(* Progression economy                                                     *)
(***************************************************************************)
\* !scale.properties?.madra: no payload, or a payload JavaScript reads as false
NoMadra(scale) == ~scale.hasMadra \/ scale.madra = 0

NotClamped(newMadra, maxMadra) == newMadra

\* if (newMadra > maxMadra) { ...; newMadra = character.madraCore.maxMadra }
ClampToMax(newMadra, maxMadra) == IF newMadra > maxMadra THEN maxMadra ELSE newMadra

CapacityDiscarded(newMadra, maxMadra) == 0

\* if (newMadra > maxMadra) { capacityIncrease = newMadra - maxMadra; ... }
CapacityIncrease(newMadra, maxMadra) ==
    IF newMadra > maxMadra THEN newMadra - maxMadra ELSE 0

AdvancedOnGrowth(maxMadra, newMaxMadra) == newMaxMadra > maxMadra

\* const advanced = false; no tier threshold is looked at
Advanced(maxMadra, newMaxMadra) == FALSE

\* TurnEngine.cycleScale(character, scale); thrown = the call ended in
\* throw new Error('Invalid scale item')
cycleScale(character, scale, heap) ==
    IF scale.type # "scale" \/ NoMadra(scale)
    THEN [thrown |-> TRUE, character |-> character, cores |-> heap,
          advanced |-> FALSE, hasNewTier |-> FALSE]
    ELSE LET core == heap[character.madraCore]
             scaleMadra == scale.madra
             sum == core.currentMadra + scaleMadra
             capacityIncrease == CapacityIncrease(sum, core.maxMadra)
             newMadra == ClampToMax(sum, core.maxMadra)
             newMaxMadra == core.maxMadra + capacityIncrease
         IN  [thrown |-> FALSE,
              character |->
                  [character EXCEPT !.madraCore = Len(heap) + 1,
                                    !.inventory = SelectSeq(@, LAMBDA item : item # scale.id)],
              cores |-> Append(heap, [core EXCEPT !.currentMadra = newMadra,
                                                  !.maxMadra = newMaxMadra]),
              advanced |-> Advanced(core.maxMadra, newMaxMadra),
              hasNewTier |-> FALSE]

\* calculateScaleMadra without Math.floor
calculateScaleMadraUnfloored(enemyRemainingMadra, random) ==
    (enemyRemainingMadra * (2 * RandomSteps + random)) \div (60 * RandomSteps)

\* a drop that holds everything the enemy had left
calculateScaleMadraWhole(enemyRemainingMadra, random) == enemyRemainingMadra

\* calculateScaleMadra, Math.random() having returned random / RandomSteps:
\* fraction = 1/30 + (random / RandomSteps) * (1/20 - 1/30)
\*          = (2 * RandomSteps + random) / (60 * RandomSteps)
calculateScaleMadra(enemyRemainingMadra, random) ==
    Floor((enemyRemainingMadra * (2 * RandomSteps + random)) \div (60 * RandomSteps))

\* id of the item dropped by a character (`scale-${id}-${Date.now()}`)
ScaleId(id) == IF id = "A" THEN "scale-A" ELSE IF id = "B" THEN "scale-B" ELSE "scale-C"

\* TurnEngine.generateScaleDrop(defeatedEnemy)
generateScaleDrop(defeatedEnemy, heap, random) ==
    LET scaleMadra == calculateScaleMadra(heap[defeatedEnemy.madraCore].currentMadra,
                                          random)
    IN  [id |-> ScaleId(defeatedEnemy.id), type |-> "scale",
         hasMadra |-> TRUE, madra |-> scaleMadra]

(***************************************************************************)
(* Dice engine                                                             *)
(***************************************************************************)
\* JavaScript's a % m for m > 0: the result has the sign of the dividend
JsRem(a, m) == IF a >= 0 THEN a % m ELSE 0 - ((0 - a) % m)

\* constructor(seed?): this.seed = seed || Date.now(); now = what Date.now()
\* returns at the time of the construction
NewDiceEngine(seed, now) == IF seed # 0 THEN seed ELSE now

\* the modulus of the generator
Period == 233280

\* a generator with the even increment 49298
NextSeedEven(seed) ==
    LET m == seed % 233280
    IN  (((m * 93) % 233280) * 100 + m + 49298) % 233280

\* DiceEngine.random, the new value of this.seed:
\* (this.seed * 9301 + 49297) % 233280.  The product is taken in two steps
\* (9301 = 93 * 100 + 1) on the residue of the seed, which keeps every
\* intermediate value small; the sum is negative exactly for seeds below -5,
\* and then the remainder is negative or zero as JsRem gives it.
NextSeed(seed) ==
    LET m == seed % 233280
        r == (((m * 93) % 233280) * 100 + m + 49297) % 233280
    IN  IF seed >= 0 - 5 THEN r
        ELSE IF r = 0 THEN 0 ELSE r - 233280

\* Math.floor(this.random() * diceType) + 1, for the seed random() has set
DieValue(seed, diceType) == ((seed * diceType) \div 233280) + 1

RECURSIVE Draw(_, _, _, _)
\* for (let i = 0; i < numDice; i++) results.push(...)
Draw(seed, diceType, numDice, results) ==
    IF numDice = 0 THEN [seed |-> seed, results |-> results]
    ELSE LET s == NextSeed(seed)
         IN  Draw(s, diceType, numDice - 1, Append(results, DieValue(s, diceType)))

RECURSIVE Sum(_)
Sum(results) == IF results = <<>> THEN 0 ELSE Head(results) + Sum(Tail(results))

\* DiceEngine.roll: the DiceRoll and the seed the engine is left with
roll(seed, diceType, numDice, modifier) ==
    LET d == Draw(seed, diceType, numDice, <<>>)
        results == d.results
    IN  [seed |-> d.seed,
         roll |-> [diceType |-> diceType,
                   numDice |-> numDice,
                   results |-> results,
                   modifier |-> modifier,
                   total |-> Sum(results) + modifier,
                   criticalHit |-> diceType = 20 /\ numDice = 1 /\ results[1] = 20,
                   criticalFail |-> diceType = 20 /\ numDice = 1 /\ results[1] = 1]]

rollAdvantage(seed, diceType, modifier) ==
    LET r1 == roll(seed, diceType, 1, 0)
        r2 == roll(r1.seed, diceType, 1, 0)
        betterRoll == IF r1.roll.results[1] > r2.roll.results[1] THEN r1.roll ELSE r2.roll
    IN  [seed |-> r2.seed,
         roll |-> [betterRoll EXCEPT !.modifier = modifier,
                                     !.total = betterRoll.results[1] + modifier]]

rollDisadvantage(seed, diceType, modifier) ==
    LET r1 == roll(seed, diceType, 1, 0)
        r2 == roll(r1.seed, diceType, 1, 0)
        worseRoll == IF r1.roll.results[1] < r2.roll.results[1] THEN r1.roll ELSE r2.roll
    IN  [seed |-> r2.seed,
         roll |-> [worseRoll EXCEPT !.modifier = modifier,
                                    !.total = worseRoll.results[1] + modifier]]

(***************************************************************************)
(* Combat engine: one DiceEngine per CombatEngine; every resolution gets   *)
(* the engine's seed and returns the seed it leaves, the CombatResult (or  *)
(* the exception thrown) and the two snapshots as the call leaves them     *)
(***************************************************************************)
\* Math.floor((abilityScore - 10) / 2)
getAbilityModifier(abilityScore) == (abilityScore - 10) \div 2

calculateTierBonusReversed(tier1, tier2) ==
    (ADVANCEMENT_TIER_LEVELS[tier2] - ADVANCEMENT_TIER_LEVELS[tier1]) * 3

calculateTierBonus(tier1, tier2) ==
    LET level1 == ADVANCEMENT_TIER_LEVELS[tier1]
        level2 == ADVANCEMENT_TIER_LEVELS[tier2]
    IN  (level1 - level2) * 3

\* the optional argument target when the caller leaves it out
undefined == [id |-> "undefined"]

\* a TypeError raised by reading a property of undefined
TypeError(seed, actor, target) ==
    [seed |-> seed, thrown |-> TRUE, result |-> [description |-> "TypeError"],
     actor |-> actor, target |-> target]

Returned(seed, result, actor, target) ==
    [seed |-> seed, thrown |-> FALSE, result |-> result,
     actor |-> actor, target |-> target]

\* the defender after an attack resolved against it: the damage is reported
\* in the result and nothing is written to the snapshot
defenderAfter(defender, damage) == defender

\* the caster after a cast with the cost deducted from its core
casterCharged(caster, madraCost) ==
    [caster EXCEPT !.madraCore.currentMadra = @ - madraCost]

\* the caster after a cast: the cost is reported in the result and nothing
\* is written to the snapshot
casterAfter(caster, madraCost) == caster

resolveAttack(seed, attacker, defender) ==
    IF defender = undefined THEN TypeError(seed, attacker, defender)
    ELSE
    LET tierBonus == calculateTierBonus(attacker.advancementTier,
                                        defender.advancementTier)
        strMod == getAbilityModifier(attacker.stats.strength)
        proficiencyBonus == 2
        attackModifier == strMod + proficiencyBonus + tierBonus
        attackRoll == roll(seed, 20, 1, attackModifier)
        hits == \/ attackRoll.roll.total >= defender.stats.armorClass
                \/ attackRoll.roll.criticalHit
        damageRoll == roll(attackRoll.seed, 8, 1, strMod)
        extraRoll == roll(damageRoll.seed, 8, 1, 0)
        damage == IF ~hits THEN 0
                  ELSE IF attackRoll.roll.criticalHit
                       THEN Max(1, damageRoll.roll.total) + extraRoll.roll.total
                       ELSE Max(1, damageRoll.roll.total)
        left == IF ~hits THEN attackRoll.seed
                ELSE IF attackRoll.roll.criticalHit THEN extraRoll.seed
                ELSE damageRoll.seed
        effects == (IF attackRoll.roll.criticalHit THEN <<"Critical Hit!">> ELSE <<>>)
                   \o (IF attackRoll.roll.criticalFail THEN <<"Critical Failure!">>
                       ELSE <<>>)
    IN  Returned(left,
                 [action |-> [actorId |-> attacker.id, actionType |-> "attack",
                              targetId |-> defender.id],
                  roll |-> attackRoll.roll,
                  success |-> hits,
                  damage |-> damage,
                  effects |-> effects,
                  description |-> IF hits THEN "hits" ELSE "misses"],
                 attacker, defenderAfter(defender, damage))

\* caster.techniques.find(t => t.id === techniqueId): the index, 0 if none
Find(techniques, techniqueId) ==
    IF \E i \in 1..Len(techniques) : techniques[i].id = techniqueId
    THEN CHOOSE i \in 1..Len(techniques) :
            /\ techniques[i].id = techniqueId
            /\ \A j \in 1..(i - 1) : techniques[j].id # techniqueId
    ELSE 0

\* resolveTechnique with the roll to hit made before the two checks
resolveTechniqueRollFirst(seed, action, caster, target) ==
    LET found == Find(caster.techniques, action.techniqueId)
        attackRoll == roll(seed, 20, 1, 0)
    IN  Returned(attackRoll.seed,
                 [action |-> action, roll |-> attackRoll.roll, success |-> FALSE,
                  description |-> IF found = 0 THEN "Technique not found"
                                  ELSE "does not have enough madra",
                  effects |-> <<>>],
                 caster, target)

resolveTechnique(seed, action, caster, target) ==
    LET found == Find(caster.techniques, action.techniqueId)
        technique == caster.techniques[found]
    IN  IF found = 0
        THEN Returned(seed,
                      [action |-> action, success |-> FALSE,
                       description |-> "Technique not found", effects |-> <<>>],
                      caster, target)
        ELSE IF caster.madraCore.currentMadra < technique.madraCost
        THEN Returned(seed,
                      [action |-> action, success |-> FALSE,
                       description |-> "does not have enough madra",
                       effects |-> <<>>],
                      caster, target)
        ELSE IF target = undefined THEN TypeError(seed, caster, target)
        ELSE
        LET tierBonus == calculateTierBonus(caster.advancementTier,
                                            target.advancementTier)
            castingMod == getAbilityModifier(caster.stats.intelligence)
            proficiencyBonus == 2
            attackModifier == castingMod + proficiencyBonus + tierBonus
            attackRoll == roll(seed, 20, 1, attackModifier)
            hits == attackRoll.roll.total >= target.stats.armorClass
            damageRoll == roll(attackRoll.seed, 10, 2, technique.proficiency \div 10)
            damage == IF hits THEN damageRoll.roll.total ELSE 0
        IN  Returned(IF hits THEN damageRoll.seed ELSE attackRoll.seed,
                     [action |-> action,
                      roll |-> attackRoll.roll,
                      success |-> hits,
                      damage |-> damage,
                      madraCost |-> technique.madraCost,
                      effects |-> IF hits THEN <<"technique effect">> ELSE <<>>,
                      description |-> IF hits THEN "casts" ELSE "misses"],
                     casterAfter(caster, technique.madraCost),
                     defenderAfter(target, damage))

\* a defend that rolls a d20 for its stance
resolveDefendRolled(seed, character, target) ==
    LET stance == roll(seed, 20, 1, 0)
    IN  Returned(stance.seed,
                 [action |-> [actorId |-> character.id, actionType |-> "defend"],
                  roll |-> stance.roll,
                  success |-> TRUE,
                  effects |-> <<"AC +2 until next turn">>,
                  description |-> "takes a defensive stance"],
                 character, target)

resolveDefend(seed, character, target) ==
    Returned(seed,
             [action |-> [actorId |-> character.id, actionType |-> "defend"],
              success |-> TRUE,
              effects |-> <<"AC +2 until next turn">>,
              description |-> "takes a defensive stance"],
             character, target)

resolveDodge(seed, character, target) ==
    Returned(seed,
             [action |-> [actorId |-> character.id, actionType |-> "dodge"],
              success |-> TRUE,
              effects |-> <<"Attacks against you have disadvantage until next turn">>,
              description |-> "prepares to dodge"],
             character, target)

resolveCombatAction(seed, action, actor, target) ==
    CASE action.actionType = "attack" -> resolveAttack(seed, actor, target)
      [] action.actionType = "cast_technique" ->
            resolveTechnique(seed, action, actor, target)
      [] action.actionType = "defend" -> resolveDefend(seed, actor, target)
      [] action.actionType = "dodge" -> resolveDodge(seed, actor, target)
      [] OTHER -> Returned(seed,
                           [action |-> action, success |-> FALSE,
                            description |-> "Invalid action", effects |-> <<>>],
                           actor, target)

RECURSIVE RollInitiatives(_, _, _)
\* characters.map(char => ({id, initiative: roll(20, 1, dex modifier).total}))
RollInitiatives(seed, characters, initiatives) ==
    IF characters = <<>> THEN [seed |-> seed, initiatives |-> initiatives]
    ELSE LET char == Head(characters)
             r == roll(seed, 20, 1, getAbilityModifier(char.stats.dexterity))
         IN  RollInitiatives(r.seed, Tail(characters),
                             Append(initiatives,
                                    [id |-> char.id, initiative |-> r.roll.total]))

\* (a, b) => b.initiative - a.initiative
Compare(a, b) == b.initiative - a.initiative

RECURSIVE InsertBeforeTies(_, _)
\* an insertion that puts the entry in front of the entries it ties with
InsertBeforeTies(sorted, e) ==
    IF sorted = <<>> THEN <<e>>
    ELSE IF Compare(Head(sorted), e) < 0
         THEN <<Head(sorted)>> \o InsertBeforeTies(Tail(sorted), e)
         ELSE <<e>> \o sorted

RECURSIVE Insert(_, _)
\* Array.prototype.sort is stable: an entry goes behind every entry the
\* comparator does not put after it
Insert(sorted, e) ==
    IF sorted = <<>> THEN <<e>>
    ELSE IF Compare(Head(sorted), e) <= 0
         THEN <<Head(sorted)>> \o Insert(Tail(sorted), e)
         ELSE <<e>> \o sorted

RECURSIVE Sort(_, _)
Sort(initiatives, sorted) ==
    IF initiatives = <<>> THEN sorted
    ELSE Sort(Tail(initiatives), Insert(sorted, Head(initiatives)))

calculateInitiative(seed, characters) ==
    LET rolled_ == RollInitiatives(seed, characters, <<>>)
        sorted == Sort(rolled_.initiatives, <<>>)
    IN  [seed |-> rolled_.seed,
         initiatives |-> rolled_.initiatives,
         order |-> [i \in 1..Len(sorted) |-> sorted[i].id]]

(***************************************************************************)
(* The world of the model: three characters, their timelines and items     *)
(***************************************************************************)
Actors == {"A", "B", "C"}

EventIds == {"e1", "e2", "e3"}

\* every order in which the characters can be listed
Orders == {o \in [1..3 -> Actors] : \A i, j \in 1..3 : i # j => o[i] # o[j]}

\* the orders in which the caller lists them
CallOrders == {<<"A", "B", "C">>, <<"C", "B", "A">>}

\* the characters the caller cycles scales into
Cyclers == {"A", "B"}

Pos(px, py) == [x |-> px, y |-> py]

\* Items a caller can hand to cycleScale
Items ==
    {[id |-> "s1", type |-> "scale", hasMadra |-> TRUE, madra |-> Points(30)],
     [id |-> "s2", type |-> "scale", hasMadra |-> TRUE, madra |-> Points(600)],
     [id |-> "s3", type |-> "scale", hasMadra |-> TRUE, madra |-> 0 - Points(50)],
     [id |-> "s4", type |-> "scale", hasMadra |-> FALSE, madra |-> 0],
     [id |-> "w1", type |-> "weapon", hasMadra |-> TRUE, madra |-> Points(30)]}

NoItem == [id |-> "none", type |-> "other", hasMadra |-> FALSE, madra |-> 0]

InitWorld == [currentTurn |-> 0, map |-> [width |-> 768, height |-> 1024]]

NoOut ==
    [op |-> "none", turn |-> 0, order |-> <<>>, updatedCharacters |-> <<>>,
     triggeredEvents |-> <<>>, worldEvents |-> <<>>, actor |-> "A", scale |-> NoItem,
     thrown |-> FALSE, advanced |-> FALSE, hasNewTier |-> FALSE, before |-> 0, after |-> 0,
     inventory |-> <<>>]

InitChars(actA, actB, posC) ==
    [a \in Actors |->
        IF a = "A"
        THEN [id |-> "A", advancementTier |-> "Iron", madraCore |-> 1,
              techniques |-> <<[id |-> "t1", proficiency |-> 99],
                               [id |-> "t3", proficiency |-> 100]>>,
              inventory |-> <<"s1", "s2", "w1">>,
              position |-> Pos(0, 0), activity |-> actA, timeline |-> <<"e1", "e2">>]
        ELSE IF a = "B"
        THEN [id |-> "B", advancementTier |-> "Foundation", madraCore |-> 2,
              techniques |-> <<[id |-> "t2", proficiency |-> 0]>>,
              inventory |-> <<>>,
              position |-> Pos(20, 0), activity |-> actB, timeline |-> <<"e3">>]
        ELSE [id |-> "C", advancementTier |-> "Monarch", madraCore |-> 3,
              techniques |-> <<>>,
              inventory |-> <<>>,
              position |-> posC, activity |-> "idle", timeline |-> <<>>]]

Event(t, a, h, p, c) ==
    [turn |-> t, action |-> a, hasTarget |-> h, targetLocation |-> p, completed |-> c]

\* The seeds a caller constructs dice engines with
Seeds == {0 - 7, 0 - 1, 0, 1, 42, 12345}

\* Values Date.now() can return when an engine is constructed
Clock == {1000, 1001}

DieTypes == {1, 8, 20}

Modifiers == {0 - 1, 0, 2}

\* Positions of a character somebody looks for: on the map, in its far
\* corner, and beyond its edge
Sights == {Pos(0, 0), Pos(30, 40), Pos(768, 1024), Pos(0, 1500)}

NoSight == [looked |-> FALSE, at |-> Pos(0, 0), perceived |-> FALSE]

NoWalk ==
    [character |-> [advancementTier |-> "Foundation", position |-> Pos(0, 0)],
     start |-> Pos(0, 0), target |-> Pos(0, 0), prev |-> Pos(0, 0), calls |-> 0,
     saw |-> NoSight]

\* The three combatants: a weak Iron caster, a strong Foundation brawler
\* and a Monarch in heavy armour
Fighters ==
    [f \in Actors |->
        IF f = "A"
        THEN [id |-> "A", advancementTier |-> "Iron",
              stats |-> [strength |-> 1, dexterity |-> 14, intelligence |-> 16,
                         armorClass |-> 12, currentHp |-> 10, maxHp |-> 10],
              madraCore |-> [currentMadra |-> Points(20), maxMadra |-> Points(40)],
              techniques |-> <<[id |-> "t1", madraCost |-> Points(10), proficiency |-> 99],
                               [id |-> "t2", madraCost |-> Points(50), proficiency |-> 0]>>]
        ELSE IF f = "B"
        THEN [id |-> "B", advancementTier |-> "Foundation",
              stats |-> [strength |-> 30, dexterity |-> 14, intelligence |-> 10,
                         armorClass |-> 10, currentHp |-> 10, maxHp |-> 10],
              madraCore |-> [currentMadra |-> 0, maxMadra |-> Points(10)],
              techniques |-> <<>>]
        ELSE [id |-> "C", advancementTier |-> "Monarch",
              stats |-> [strength |-> 10, dexterity |-> 10, intelligence |-> 10,
                         armorClass |-> 30, currentHp |-> 10, maxHp |-> 10],
              madraCore |-> [currentMadra |-> Points(10), maxMadra |-> Points(10)],
              techniques |-> <<>>]]

\* <<actor, target>> of a resolution; "undefined" when no target is passed
Duels == {<<"A", "B">>, <<"A", "C">>, <<"B", "A">>, <<"A", "undefined">>}

CombatActionType ==
    {"attack", "cast_technique", "defend", "move", "use_item", "dodge", "end_turn"}

\* t9 is a technique nobody has
TechniqueIds == {"t1", "t2", "t9"}

\* The actions a caller can pass for a duel
CombatActions(duel) ==
    {[actorId |-> duel[1], actionType |-> actionType, targetId |-> duel[2],
      techniqueId |-> "undefined"] : actionType \in CombatActionType \ {"cast_technique"}}
    \cup
    {[actorId |-> duel[1], actionType |-> "cast_technique", targetId |-> duel[2],
      techniqueId |-> techniqueId] : techniqueId \in TechniqueIds}

\* Seeds a CombatEngine is constructed with
CombatSeeds == {0 - 7, 0, 22, 95}

NoCall == [op |-> "none"]

NoFight ==
    [seed |-> 1, fighters |-> Fighters, n |-> 0, prev |-> NoCall, last |-> NoCall]

NoField ==
    /\ walk = NoWalk
    /\ combat = NoFight

NoDice ==
    /\ gens = [seed |-> 1, engines |-> <<1, 1>>]
    /\ rolled = <<>>
    /\ nrolls = 0

\* Worlds for the turn engine: who rests or fights, where C stands, and what
\* the three timeline events are and when they are due
InitTurn ==
    /\ world = InitWorld
    /\ \E actA \in {"idle", "resting"}, actB \in {"idle", "combat"},
          posC \in {Pos(18, 0), Pos(300, 400)} :
          chars = InitChars(actA, actB, posC)
    /\ cores = <<[currentMadra |-> Points(980), maxMadra |-> Points(1000)],
                 [currentMadra |-> Points(0), maxMadra |-> Points(2000)],
                 [currentMadra |-> Points(50), maxMadra |-> Points(50)]>>
    /\ \E t1 \in {1, 2}, a1 \in {"move", "train"}, a2 \in {"move", "combat"},
          e3 \in {Event(2, "train", FALSE, Pos(0, 0), FALSE),
                   Event(2, "move", TRUE, Pos(50, 40), FALSE),
                   Event(2, "train", FALSE, Pos(0, 0), TRUE)} :
          events = [e \in EventIds |->
                       IF e = "e1" THEN Event(t1, a1, TRUE, Pos(20, 0), FALSE)
                       ELSE IF e = "e2" THEN Event(1, a2, FALSE, Pos(0, 0), FALSE)
                       ELSE e3]
    /\ out = NoOut
    /\ log = <<>>
    /\ cycles = 0
    /\ NoDice
    /\ NoField

\* Characters at rest or idle whose maximum charge is, or is not, a multiple
\* of 20 points, with a charge far from or close to the maximum
MaxCharges == {Points(19), Points(37), Points(2000)}

InitRegen ==
    /\ world = InitWorld
    /\ \E actA \in {"idle", "resting"}, actB \in {"idle", "resting"} :
          chars = InitChars(actA, actB, Pos(300, 400))
    /\ \E curA \in {Points(0), Points(49)}, maxB \in MaxCharges, nearB \in BOOLEAN :
          cores = <<[currentMadra |-> curA, maxMadra |-> Points(50)],
                    [currentMadra |-> IF nearB THEN maxB - Points(1) ELSE Points(0),
                     maxMadra |-> maxB],
                    [currentMadra |-> Points(50), maxMadra |-> Points(50)]>>
    /\ \E t1 \in {1, 2}, a1 \in {"move", "train"} :
          events = [e \in EventIds |->
                       IF e = "e1" THEN Event(t1, a1, TRUE, Pos(20, 0), FALSE)
                       ELSE IF e = "e2" THEN Event(1, "combat", FALSE, Pos(0, 0), FALSE)
                       ELSE Event(2, "train", FALSE, Pos(0, 0), FALSE)]
    /\ out = NoOut
    /\ log = <<>>
    /\ cycles = 0
    /\ NoDice
    /\ NoField

(***************************************************************************)
(* Operations of the caller                                                *)
(***************************************************************************)
\* One call of TurnEngine.processTurn(world, characters) with the characters
\* the caller holds, listed in some order; the caller keeps what it gets back
ProcessTurn ==
    /\ Len(log) < MaxCalls
    /\ \E order \in CallOrders :
          LET characters == [i \in 1..3 |-> chars[order[i]]]
              r == processTurn(world, characters, cores, events)
          IN  /\ cores' = r.cores
              /\ events' = r.events
              /\ chars' = [a \in Actors |->
                              LET i == CHOOSE i \in 1..3 : order[i] = a
                              IN  r.updatedCharacters[i]]
              /\ out' = [NoOut EXCEPT !.op = "processTurn",
                                      !.turn = world.currentTurn + 1,
                                      !.order = order,
                                      !.updatedCharacters = r.updatedCharacters,
                                      !.triggeredEvents = r.triggeredEvents,
                                      !.worldEvents = r.worldEvents]
              /\ log' = Append(log, [turn |-> world.currentTurn + 1,
                                     triggeredEvents |-> r.triggeredEvents])
    /\ UNCHANGED <<world, cycles, gens, rolled, nrolls, walk, combat>>

\* The caller stores the world with the next turn number
SaveWorld ==
    /\ world.currentTurn < MaxTurn
    /\ world' = [world EXCEPT !.currentTurn = @ + 1]
    /\ UNCHANGED <<chars, cores, events, out, log, cycles, gens, rolled, nrolls, walk, combat>>

\* One call of TurnEngine.cycleScale(character, scale); the caller keeps the
\* returned character unless the call threw
CycleScale ==
    /\ cycles < MaxCycles
    /\ \E a \in Cyclers, scale \in Items :
          LET r == cycleScale(chars[a], scale, cores)
          IN  /\ cores' = r.cores
              /\ chars' = [chars EXCEPT ![a] = r.character]
              /\ out' = [NoOut EXCEPT !.op = "cycleScale",
                                      !.actor = a,
                                      !.scale = scale,
                                      !.thrown = r.thrown,
                                      !.advanced = r.advanced,
                                      !.hasNewTier = r.hasNewTier,
                                      !.inventory = chars[a].inventory,
                                      !.before = chars[a].madraCore,
                                      !.after = r.character.madraCore]
    /\ cycles' = cycles + 1
    /\ UNCHANGED <<world, events, log, gens, rolled, nrolls, walk, combat>>

\* Defeated characters with nothing, little or much madra left
InitDrop ==
    /\ world = InitWorld
    /\ chars = InitChars("idle", "idle", Pos(300, 400))
    /\ \E curA \in {Points(0), Points(10), Points(300)},
          curB \in {Points(50), Points(2000)} :
          cores = <<[currentMadra |-> curA, maxMadra |-> Points(1000)],
                    [currentMadra |-> curB, maxMadra |-> Points(2000)],
                    [currentMadra |-> Points(50), maxMadra |-> Points(50)]>>
    /\ events = [e \in EventIds |-> Event(1, "custom", FALSE, Pos(0, 0), TRUE)]
    /\ out = NoOut
    /\ log = <<>>
    /\ cycles = 0
    /\ NoDice
    /\ NoField

\* One call of TurnEngine.generateScaleDrop(defeatedEnemy)
GenerateScaleDrop ==
    /\ \E a \in Actors, random \in 0..(RandomSteps - 1) :
          out' = [NoOut EXCEPT !.op = "generateScaleDrop",
                               !.actor = a,
                               !.scale = generateScaleDrop(chars[a], cores, random),
                               !.before = chars[a].madraCore,
                               !.after = chars[a].madraCore]
    /\ UNCHANGED <<world, chars, cores, events, log, cycles, diceVars, fieldVars>>

\* The item just dropped is handed to cycleScale for some character
CycleDrop ==
    /\ cycles < MaxCycles
    /\ out.op = "generateScaleDrop"
    /\ \E a \in Actors :
          LET r == cycleScale(chars[a], out.scale, cores)
          IN  /\ cores' = r.cores
              /\ chars' = [chars EXCEPT ![a] = r.character]
              /\ out' = [NoOut EXCEPT !.op = "cycleScale",
                                      !.actor = a,
                                      !.scale = out.scale,
                                      !.thrown = r.thrown,
                                      !.advanced = r.advanced,
                                      !.hasNewTier = r.hasNewTier,
                                      !.inventory = chars[a].inventory,
                                      !.before = chars[a].madraCore,
                                      !.after = r.character.madraCore]
    /\ cycles' = cycles + 1
    /\ UNCHANGED <<world, events, log, diceVars, fieldVars>>

\* Worlds for the progression economy: one training or travelling character
\* whose core is nearly full, next to one whose core is empty
InitScale ==
    /\ world = InitWorld
    /\ \E actA \in {"idle", "resting"} : chars = InitChars(actA, "idle", Pos(300, 400))
    /\ cores = <<[currentMadra |-> Points(980), maxMadra |-> Points(1000)],
                    [currentMadra |-> Points(0), maxMadra |-> Points(2000)],
                    [currentMadra |-> Points(50), maxMadra |-> Points(50)]>>
    /\ \E a1 \in {"move", "train"} :
          events = [e \in EventIds |->
                       IF e = "e1" THEN Event(1, a1, TRUE, Pos(20, 0), FALSE)
                       ELSE IF e = "e2" THEN Event(1, "combat", FALSE, Pos(0, 0), FALSE)
                       ELSE Event(2, "train", FALSE, Pos(0, 0), FALSE)]
    /\ out = NoOut
    /\ log = <<>>
    /\ cycles = 0
    /\ NoDice
    /\ NoField

\* Two dice engines constructed with the same seed argument, possibly at
\* different times
InitDice ==
    /\ world = InitWorld
    /\ chars = InitChars("idle", "idle", Pos(300, 400))
    /\ cores = <<[currentMadra |-> 0, maxMadra |-> Points(1)],
                 [currentMadra |-> 0, maxMadra |-> Points(1)],
                 [currentMadra |-> 0, maxMadra |-> Points(1)]>>
    /\ events = [e \in EventIds |-> Event(1, "custom", FALSE, Pos(0, 0), TRUE)]
    /\ out = NoOut
    /\ log = <<>>
    /\ cycles = 0
    /\ \E seed \in Seeds, now1 \in Clock, now2 \in Clock :
          gens = [seed |-> seed,
                  engines |-> <<NewDiceEngine(seed, now1), NewDiceEngine(seed, now2)>>]
    /\ rolled = <<>>
    /\ nrolls = 0
    /\ NoField

\* The same call made on both engines
Rolled(r1, r2) ==
    /\ nrolls < MaxRolls
    /\ gens' = [gens EXCEPT !.engines = <<r1.seed, r2.seed>>]
    /\ rolled' = <<r1.roll, r2.roll>>
    /\ nrolls' = nrolls + 1
    /\ UNCHANGED <<turnVars, fieldVars>>

Roll ==
    \E diceType \in DieTypes, numDice \in 1..2, modifier \in Modifiers :
        Rolled(roll(gens.engines[1], diceType, numDice, modifier),
               roll(gens.engines[2], diceType, numDice, modifier))

RollAdvantage ==
    \E diceType \in DieTypes, modifier \in Modifiers :
        Rolled(rollAdvantage(gens.engines[1], diceType, modifier),
               rollAdvantage(gens.engines[2], diceType, modifier))

RollDisadvantage ==
    \E diceType \in DieTypes, modifier \in Modifiers :
        Rolled(rollDisadvantage(gens.engines[1], diceType, modifier),
               rollDisadvantage(gens.engines[2], diceType, modifier))

\* no turn is processed and no dice engine is used
NoTurn ==
    /\ world = InitWorld
    /\ chars = InitChars("idle", "idle", Pos(300, 400))
    /\ cores = <<[currentMadra |-> 0, maxMadra |-> Points(1)],
                 [currentMadra |-> 0, maxMadra |-> Points(1)],
                 [currentMadra |-> 0, maxMadra |-> Points(1)]>>
    /\ events = [e \in EventIds |-> Event(1, "custom", FALSE, Pos(0, 0), TRUE)]
    /\ out = NoOut
    /\ log = <<>>
    /\ cycles = 0

\* Journeys <<from, to>>; on each of them every distance and every step of
\* the tiers below is a whole number
Routes ==
    {<<Pos(0, 0), Pos(30, 40)>>, <<Pos(0, 0), Pos(9, 12)>>, <<Pos(0, 0), Pos(3, 4)>>,
     <<Pos(0, 0), Pos(0, 23)>>, <<Pos(0, 0), Pos(0 - 12, 0)>>, <<Pos(0, 0), Pos(0, 0)>>,
     <<Pos(6, 8), Pos(30, 40)>>, <<Pos(6, 8), Pos(0, 0)>>}

Travellers == {"Foundation", "Iron", "LowGold", "Monarch"}

\* A character of some tier about to travel one of the routes
InitTravel ==
    /\ NoTurn
    /\ NoDice
    /\ combat = NoFight
    /\ \E tier \in Travellers, route \in Routes :
          walk = [character |-> [advancementTier |-> tier, position |-> route[1]],
                  start |-> route[1], target |-> route[2], prev |-> route[1], calls |-> 0,
                  saw |-> NoSight]

\* One call of TravelEngine.moveToward; the character takes the position returned
Move ==
    /\ walk.calls < MaxMoves
    /\ walk' = [walk EXCEPT !.prev = walk.character.position,
                            !.character.position =
                                moveToward(walk.character, walk.target, MapDiagonal(world)),
                            !.calls = @ + 1]
    /\ UNCHANGED <<turnVars, diceVars, combat>>

\* One call of TravelEngine.canPerceive with the traveller as observer
Perceive ==
    /\ \E p \in Sights :
          walk' = [walk EXCEPT !.saw =
                      [looked |-> TRUE, at |-> p,
                       perceived |-> canPerceive(walk.character, [position |-> p],
                                                 MapDiagonal(world))]]
    /\ UNCHANGED <<turnVars, diceVars, combat>>

NextTravel == Move \/ Perceive

\* new CombatEngine(seed)
InitCombat ==
    /\ NoTurn
    /\ NoDice
    /\ walk = NoWalk
    /\ \E seed \in CombatSeeds, now \in Clock :
          combat = [NoFight EXCEPT !.seed = NewDiceEngine(seed, now)]

\* One call of resolveCombatAction(action, actor, target?)
Resolve ==
    /\ combat.n < MaxActions
    /\ \E duel \in Duels :
       \E action \in CombatActions(duel) :
          LET actor == combat.fighters[duel[1]]
              target == IF duel[2] = "undefined" THEN undefined
                        ELSE combat.fighters[duel[2]]
              r == resolveCombatAction(combat.seed, action, actor, target)
              written == [combat.fighters EXCEPT ![duel[1]] = r.actor]
          IN  combat' = [seed |-> r.seed,
                         fighters |-> IF duel[2] = "undefined" THEN written
                                      ELSE [written EXCEPT ![duel[2]] = r.target],
                         n |-> combat.n + 1,
                         prev |-> combat.last,
                         last |-> [op |-> "resolveCombatAction",
                                   action |-> action,
                                   seed |-> combat.seed,
                                   thrown |-> r.thrown,
                                   result |-> r.result]]
    /\ UNCHANGED <<turnVars, diceVars, walk>>

\* One call of calculateInitiative(characters)
CalculateInitiative ==
    /\ combat.n < MaxActions
    /\ \E order \in Orders :
          LET characters == [i \in 1..Len(order) |-> combat.fighters[order[i]]]
              r == calculateInitiative(combat.seed, characters)
          IN  combat' = [combat EXCEPT !.seed = r.seed,
                                       !.n = @ + 1,
                                       !.prev = combat.last,
                                       !.last = [op |-> "calculateInitiative",
                                                 characters |-> order,
                                                 seed |-> combat.seed,
                                                 thrown |-> FALSE,
                                                 result |-> r.order]]
    /\ UNCHANGED <<turnVars, diceVars, walk>>

NextCombat == Resolve \/ CalculateInitiative

SpecCombat == InitCombat /\ [][NextCombat]_vars

SpecTravel == InitTravel /\ [][NextTravel]_vars

NextTurn == ProcessTurn \/ SaveWorld

NextScale == ProcessTurn \/ SaveWorld \/ CycleScale

NextDice == Roll \/ RollAdvantage \/ RollDisadvantage

\* Seeds of an engine that is rolled for a whole period
CycleSeeds == {12345, 300000}

\* new DiceEngine(seed), both entries of engines being that one engine
InitCycle ==
    /\ NoTurn
    /\ NoField
    /\ \E seed \in CycleSeeds, now \in Clock :
          gens = [seed |-> NewDiceEngine(seed, now),
                  engines |-> <<NewDiceEngine(seed, now), NewDiceEngine(seed, now)>>]
    /\ rolled = <<>>
    /\ nrolls = 0

\* One more roll(20, 1, 0) on the engine, up to one roll beyond a period
RollD20 ==
    /\ nrolls <= Period
    /\ LET r == roll(gens.engines[1], 20, 1, 0)
       IN  /\ gens' = [gens EXCEPT !.engines = <<r.seed, r.seed>>]
           /\ rolled' = <<r.roll, r.roll>>
    /\ nrolls' = nrolls + 1
    /\ UNCHANGED <<turnVars, fieldVars>>

NextCycle == RollD20

\* the caller keeps rolling
SpecCycle == InitCycle /\ [][NextCycle]_vars /\ WF_vars(RollD20)

Spec == InitTurn /\ [][NextTurn]_vars

SpecScale == InitScale /\ [][NextScale]_vars

SpecDice == InitDice /\ [][NextDice]_vars

SpecRegen == InitRegen /\ [][NextTurn]_vars

NextDrop == GenerateScaleDrop \/ CycleDrop

SpecDrop == InitDrop /\ [][NextDrop]_vars

(***************************************************************************)
(* Properties                                                              *)
(***************************************************************************)
\* the calls of the log in which event e is among the triggered events
FiredIn(e) == {i \in 1..Len(log) : e \in Range(log[i].triggeredEvents)}

\* how often event e occurs in a list of triggered events
Occurrences(e, triggered) == Cardinality({j \in 1..Len(triggered) : triggered[j] = e})

\* what a snapshot shows of a character, read through the heap
View(character, heap) == [character EXCEPT !.madraCore = heap[@]]

\* a step that is a call of processTurn
IsProcessTurn == Len(log') = Len(log) + 1

\* C1: over all processTurn calls so far, in each of which the caller passed
\* the characters returned by the call before, no timeline event was put in
\* triggeredEvents more than once: not twice by one call, and not by two
\* calls, whether or not they were made with the same turn number.
C1_FiresAtMostOnce ==
    \A e \in EventIds :
        /\ Cardinality(FiredIn(e)) <= 1
        /\ \A i \in 1..Len(log) : Occurrences(e, log[i].triggeredEvents) <= 1

\* C1 witness: two calls were made with the same turn number and the first of
\* them fired an event
C1_Witness ==
    \E i, j \in 1..Len(log) :
        i < j /\ log[i].turn = log[j].turn /\ log[i].triggeredEvents # <<>>

\* C2: a processTurn call leaves the caller with a world whose turn number is
\* one more than before the call.
C2_TurnCounterAdvances ==
    [][IsProcessTurn => world'.currentTurn = world.currentTurn + 1]_vars

\* the calls so far were made one per turn, with consecutive turn numbers
Consecutive == \A i \in 2..Len(log) : log[i].turn = log[i - 1].turn + 1

\* event e was not completed before the first call
InitiallyOpen(e) == ~events[e].completed \/ FiredIn(e) # {}

\* C3: when the calls were made with consecutive turn numbers, an event that
\* was not completed at the start and whose trigger turn T is a turn number
\* processed or still to come is in the triggeredEvents of exactly the call
\* whose new turn number is T, and it is completed once that call was made.
C3_FiresExactlyAtTriggerTurn ==
    (Consecutive /\ Len(log) > 0) =>
        \A e \in EventIds :
            (InitiallyOpen(e) /\ events[e].turn >= log[1].turn) =>
                /\ \A i \in 1..Len(log) :
                       (i \in FiredIn(e)) <=> (log[i].turn = events[e].turn)
                /\ (events[e].turn <= log[Len(log)].turn) => events[e].completed

\* C3 witness: two consecutive calls, each of which fired an event
C3_Witness ==
    /\ Len(log) = 2
    /\ Consecutive
    /\ log[1].triggeredEvents # <<>>
    /\ log[2].triggeredEvents # <<>>

\* C4: every character the caller got back from processTurn or cycleScale has
\* 0 <= currentMadra <= maxMadra.
C4_MadraWithinBounds ==
    \A a \in Actors :
        LET core == cores[chars[a].madraCore]
        IN  0 <= core.currentMadra /\ core.currentMadra <= core.maxMadra

\* C5: two dice engines constructed with the same seed return the same
\* DiceRoll for the same sequence of calls.
C5_SameSeedSameRolls == rolled # <<>> => rolled[1] = rolled[2]

\* the item is not of scale type, or is a scale that carries no charge
InvalidScale(scale) == scale.type # "scale" \/ ~scale.hasMadra

\* C6: cycleScale with an item that is not a scale, or with a scale without a
\* charge payload, returns (does not throw) and leaves the character's
\* currentMadra, maxMadra and inventory as they were.
C6_InvalidScaleIsReturned ==
    (out.op = "cycleScale" /\ InvalidScale(out.scale)) =>
        /\ ~out.thrown
        /\ cores[out.after] = cores[out.before]
        /\ chars[out.actor].inventory = out.inventory

\* the last operation was a successful cycleScale whose scale held more than
\* the core had room for
Overflowed ==
    /\ out.op = "cycleScale"
    /\ ~out.thrown
    /\ out.scale.madra > cores[out.before].maxMadra - cores[out.before].currentMadra

\* C7, as claimed: in the overflow case the returned maxMadra is the old
\* maxMadra plus the overflow, and the returned currentMadra equals the new
\* maxMadra.
C7_OverflowFillsNewMax ==
    Overflowed =>
        LET old == cores[out.before]
            new == cores[out.after]
        IN  /\ new.maxMadra = old.maxMadra
                              + (old.currentMadra + out.scale.madra - old.maxMadra)
            /\ new.currentMadra = new.maxMadra

\* C7, amended: in the overflow case the returned maxMadra is the old maxMadra
\* plus the overflow, and the returned currentMadra equals the OLD maxMadra.
C7_OverflowFillsOldMax ==
    Overflowed =>
        LET old == cores[out.before]
            new == cores[out.after]
        IN  /\ new.maxMadra = old.maxMadra
                              + (old.currentMadra + out.scale.madra - old.maxMadra)
            /\ new.currentMadra = old.maxMadra

\* C7 witness: a scale was cycled into a core that had less room than its charge
C7_Witness == Overflowed

\* the last processTurn emitted an interaction event from a's perspective that
\* lists b
Encounters(a, b) ==
    \E k \in 1..Len(out.worldEvents) :
        LET we == out.worldEvents[k]
        IN  /\ we.type = "interaction"
            /\ Head(we.involvedCharacterIds) = a
            /\ b \in Range(Tail(we.involvedCharacterIds))

\* C8: after a processTurn call, for characters a and b that are not in
\* combat, an interaction event of a that lists b comes with one of b that
\* lists a.
C8_EncountersAreMutual ==
    out.op = "processTurn" =>
        \A a, b \in Actors :
            (/\ a # b
             /\ chars[a].activity # "combat"
             /\ chars[b].activity # "combat"
             /\ Encounters(a, b)) => Encounters(b, a)

\* what a processTurn call returns and leaves behind, without the order of its
\* lists: the snapshot of each character, the supplied snapshots as the call
\* left them, the events, the set of fired events and the set of world events
\* (the ids after the first of an event's involvedCharacterIds taken as a set)
Outcome(order) ==
    LET r == processTurn(world, [i \in 1..3 |-> chars[order[i]]], cores, events)
    IN  [updated |-> [a \in Actors |->
                         LET i == CHOOSE i \in 1..3 : order[i] = a
                         IN  View(r.updatedCharacters[i], r.cores)],
         supplied |-> [a \in Actors |-> View(chars[a], r.cores)],
         events |-> r.events,
         triggered |-> Range(r.triggeredEvents),
         worldEvents |-> {[id |-> we.id, turn |-> we.turn, type |-> we.type,
                           location |-> we.location,
                           first |-> Head(we.involvedCharacterIds),
                           others |-> Range(Tail(we.involvedCharacterIds))] :
                          we \in Range(r.worldEvents)},
         count |-> <<Len(r.triggeredEvents), Len(r.worldEvents)>>]

C10_SuppliedSnapshotsUntouched ==
    [][IsProcessTurn => \A a \in Actors : View(chars[a], cores') = View(chars[a], cores)]_vars

Resolved(actionType) ==
    /\ combat.last.op = "resolveCombatAction"
    /\ combat.last.action.actionType = actionType
    /\ ~combat.last.thrown

\* the same action was resolved by the last two calls
Repeated ==
    /\ combat.prev.op = "resolveCombatAction"
    /\ combat.last.op = "resolveCombatAction"
    /\ combat.prev.action = combat.last.action

Diceless == {"defend", "dodge", "move", "use_item", "end_turn"}

C13_ResultsInRange ==
    rolled # <<>> =>
        LET r == rolled[1]
        IN  /\ \A i \in 1..Len(r.results) : r.results[i] \in 1..r.diceType
            /\ r.total = Sum(r.results) + r.modifier

\* C14: a basic attack rolls one d20 with modifier floor((strength - 10) / 2)
\* + 2 + 3 * (attacker's tier level - defender's tier level) and succeeds
\* exactly when the total is at least the defender's armor class or the raw
\* d20 is 20.
C14_AttackRollAndHit ==
    Resolved("attack") =>
        LET attacker == Fighters[combat.last.action.actorId]
            defender == Fighters[combat.last.action.targetId]
            r == combat.last.result.roll
        IN  /\ r.diceType = 20
            /\ r.numDice = 1
            /\ Len(r.results) = 1
            /\ r.modifier = ((attacker.stats.strength - 10) \div 2) + 2
                            + 3 * (ADVANCEMENT_TIER_LEVELS[attacker.advancementTier]
                                   - ADVANCEMENT_TIER_LEVELS[defender.advancementTier])
            /\ r.total = r.results[1] + r.modifier
            /\ combat.last.result.success <=>
                   (r.total >= defender.stats.armorClass \/ r.results[1] = 20)

\* C14 witness: an attack against a higher tier that hits by its natural 20
\* alone, the total being below the armor class
C14_Witness ==
    /\ Resolved("attack")
    /\ combat.last.result.success
    /\ combat.last.result.roll.results[1] = 20
    /\ combat.last.result.roll.modifier < 0
    /\ combat.last.result.roll.total
           < Fighters[combat.last.action.targetId].stats.armorClass

\* C15: a basic attack that succeeds deals at least 1 damage and one that
\* fails deals 0.
C15_DamageFloor ==
    Resolved("attack") =>
        /\ combat.last.result.success => combat.last.result.damage >= 1
        /\ ~combat.last.result.success => combat.last.result.damage = 0

\* C15 witness: a hit without a critical by the attacker of strength 1
\* (modifier -5) against armor it can reach, dealing the floor of 1
C15_Witness ==
    /\ Resolved("attack")
    /\ combat.last.action.actorId = "A"
    /\ combat.last.action.targetId = "B"
    /\ combat.last.result.success
    /\ ~combat.last.result.roll.criticalHit
    /\ combat.last.result.damage = 1

\* the cast asked for names no technique of the caster, or one it cannot pay
FailingCast(call) ==
    /\ call.op = "resolveCombatAction"
    /\ call.action.actionType = "cast_technique"
    /\ LET caster == Fighters[call.action.actorId]
       IN  \A i \in 1..Len(caster.techniques) :
              \/ caster.techniques[i].id # call.action.techniqueId
              \/ caster.madraCore.currentMadra < caster.techniques[i].madraCost

\* C16: a cast of a technique the actor does not have, or cannot pay, returns
\* success = false without a roll and draws no die: the generator's seed is
\* what it was before the call.
C16_FailedCastDrawsNothing ==
    FailingCast(combat.last) =>
        /\ ~combat.last.thrown
        /\ ~combat.last.result.success
        /\ "roll" \notin DOMAIN combat.last.result
        /\ combat.seed = combat.last.seed

\* C16 witness: a cast that cannot be paid right after a cast of an unknown
\* technique
C16_Witness ==
    /\ FailingCast(combat.prev)
    /\ combat.prev.action.techniqueId = "t9"
    /\ FailingCast(combat.last)
    /\ combat.last.action.techniqueId = "t2"

\* C17: after any sequence of resolutions the snapshots are what they were:
\* the caster's currentMadra and everybody's currentHp included.
C17_SnapshotsUnchanged == combat.fighters = Fighters

\* C17 witness: a technique that hit and reported its cost, right after an
\* attack that hit
C17_Witness ==
    /\ combat.prev.op = "resolveCombatAction"
    /\ combat.prev.action.actionType = "attack"
    /\ ~combat.prev.thrown
    /\ combat.prev.result.success
    /\ Resolved("cast_technique")
    /\ combat.last.result.success
    /\ combat.last.result.damage > 0
    /\ combat.last.result.madraCost > 0

\* C18: every action of every kind, with or without a target, returns one
\* Combat Result and raises nothing; defend and dodge succeed without a roll.
C18_AlwaysOneResult ==
    (combat.last.op = "resolveCombatAction") =>
        /\ ~combat.last.thrown
        /\ (combat.last.action.actionType \in {"defend", "dodge"}) =>
              /\ combat.last.result.success
              /\ "roll" \notin DOMAIN combat.last.result

RECURSIVE NthSeed(_, _)
\* the seed after k draws
NthSeed(seed, k) == IF k = 0 THEN seed ELSE NthSeed(NextSeed(seed), k - 1)

\* C19: calculateInitiative returns a permutation of the input ids in
\* descending order of 1d20 + dexterity modifier, the k-th actor of the input
\* getting the k-th draw; actors with equal values keep their input order.
C19_InitiativeOrder ==
    (combat.last.op = "calculateInitiative") =>
        LET input == combat.last.characters
            order == combat.last.result
            Place(id) == CHOOSE k \in 1..Len(input) : input[k] = id
            Initiative(id) ==
                DieValue(NthSeed(combat.last.seed, Place(id)), 20)
                + ((Fighters[id].stats.dexterity - 10) \div 2)
        IN  /\ Len(order) = Len(input)
            /\ Range(order) = Range(input)
            /\ combat.seed = NthSeed(combat.last.seed, Len(input))
            /\ \A i \in 1..Len(order) : \A j \in (i + 1)..Len(order) :
                  \/ Initiative(order[i]) > Initiative(order[j])
                  \/ /\ Initiative(order[i]) = Initiative(order[j])
                     /\ Place(order[i]) < Place(order[j])

\* C19 witness: B and A, given in that order, roll the same value and C rolls
\* less
C19_Witness ==
    /\ combat.last.op = "calculateInitiative"
    /\ combat.last.seed = 22
    /\ combat.last.characters = <<"B", "A", "C">>
    /\ combat.last.result = <<"B", "A", "C">>

\* the charge of actor a after a processTurn call is its charge before the
\* call plus regenAmount, capped at its maximum
Regenerated(a, regenAmount) ==
    LET core == cores[chars[a].madraCore]
    IN  cores'[chars'[a].madraCore].currentMadra
            = Min(core.maxMadra, core.currentMadra + regenAmount)

Dropped == out.op = "generateScaleDrop"

\* what the defeated character had left when the scale was dropped
Remaining == cores[out.before].currentMadra

C22_ChargeBelowRemaining == Dropped => out.scale.madra < Remaining

\* C22 (amended): the charge of a dropped scale is strictly less than the
\* defeated character's currentMadra when that is positive, and is 0 when
\* the character has nothing left.
C22_ChargeBelowPositiveRemaining ==
    Dropped =>
        /\ (Remaining > 0) => out.scale.madra < Remaining
        /\ (Remaining = 0) => out.scale.madra = 0

\* C22 witness: a drop with a positive charge
C22_Witness ==
    /\ Dropped
    /\ Remaining = Points(2000)
    /\ out.scale.madra > 0

\* C28: cycleScale with an item that generateScaleDrop produced does not end
\* in the invalid-scale failure.
C28_DropsAreAccepted ==
    (out.op = "cycleScale" /\ out.scale.id \in {ScaleId(a) : a \in Actors}) => ~out.thrown

\* the last operation was a cycleScale that returned
Cycled == out.op = "cycleScale" /\ ~out.thrown

C26_ChargeIsConserved ==
    Cycled =>
        LET old == cores[out.before]
            new == cores[out.after]
        IN  /\ (new.currentMadra - old.currentMadra) + (new.maxMadra - old.maxMadra)
                   = out.scale.madra
            /\ (old.currentMadra + out.scale.madra <= old.maxMadra) =>
                  /\ new.maxMadra = old.maxMadra
                  /\ new.currentMadra = old.currentMadra + out.scale.madra

\* C26 witness: a scale of 30 points cycled into a core with room for 20:
\* 20 points went to currentMadra and 10 to maxMadra
C26_Witness ==
    /\ Cycled
    /\ out.scale.madra = Points(30)
    /\ cores[out.after].currentMadra = cores[out.before].currentMadra + Points(20)
    /\ cores[out.after].maxMadra = cores[out.before].maxMadra + Points(10)

\* C27: cycleScale adds a scale's charge only when the scale is in the
\* character's inventory: cycling a scale that is not there (because an
\* earlier cycleScale removed it) adds nothing.
C27_AbsorbedOnlyFromInventory ==
    (Cycled /\ out.scale.id \notin Range(out.inventory)) =>
        cores[out.after] = cores[out.before]

\* the timeline events of a that the processTurn call of this step fired
DueFor(a) == Range(chars[a].timeline) \cap Range(out'.triggeredEvents)

Trains(a) == {e \in DueFor(a) : events[e].action = "train"}

Moves(a) == {e \in DueFor(a) : events[e].action = "move" /\ events[e].hasTarget}

\* C23: a train event due in processTurn (the only train event due for the
\* character, with no movement in the same turn) raises the proficiency of
\* each of the character's techniques by 1, capped at 100, raises maxMadra by
\* 0.1% of what it was, leaves currentMadra alone and sets the activity to
\* training.
C23_TrainEvent ==
    [][IsProcessTurn =>
          \A a \in Actors :
              (Cardinality(Trains(a)) = 1 /\ Moves(a) = {}) =>
                  LET old == chars[a]
                      new == chars'[a]
                      oldCore == cores[old.madraCore]
                      newCore == cores'[new.madraCore]
                  IN  /\ Len(new.techniques) = Len(old.techniques)
                      /\ \A i \in 1..Len(old.techniques) :
                            /\ new.techniques[i].id = old.techniques[i].id
                            /\ new.techniques[i].proficiency =
                                   IF old.techniques[i].proficiency < 100
                                   THEN old.techniques[i].proficiency + 1
                                   ELSE 100
                      /\ (newCore.maxMadra - oldCore.maxMadra) * 1000 = oldCore.maxMadra
                      /\ newCore.currentMadra = oldCore.currentMadra
                      /\ new.activity = "training"]_vars

\* C23 witness: A has trained: its techniques went from 99 and 100 to 100 and
\* 100 and its maxMadra from 1000 to 1001 points, with 980 points in the core
C23_Witness ==
    /\ Len(log) >= 1
    /\ chars["A"].activity = "training"
    /\ chars["A"].techniques = <<[id |-> "t1", proficiency |-> 100],
                                 [id |-> "t3", proficiency |-> 100]>>
    /\ cores[chars["A"].madraCore]
           = [currentMadra |-> Points(980), maxMadra |-> Points(1001)]

\* C29: processTurn changes a character's position only when a move event
\* with a target is due for it on that turn, and then by one moveToward step
\* toward that target; in every other call the position stays, reached or
\* not the target of an earlier move event.
C29_PositionFrame ==
    [][IsProcessTurn =>
          \A a \in Actors :
              /\ (Moves(a) = {}) => chars'[a].position = chars[a].position
              /\ \A e \in Moves(a) :
                    (Moves(a) = {e}) =>
                        chars'[a].position
                            = moveToward(chars[a], events[e].targetLocation,
                                         MapDiagonal(world))]_vars

\* C29 witness: A went one step of 10 toward (20, 0) on turn 1 and a call
\* for turn 2 has left it at (10, 0)
C29_Witness ==
    /\ Len(log) = 2
    /\ log[1].turn = 1
    /\ "e1" \in Range(log[1].triggeredEvents)
    /\ events["e1"].action = "move"
    /\ log[2].turn = 2
    /\ chars["A"].position = Pos(10, 0)

\* C24: a Monarch perceives a target at every position, whatever the
\* distance.
C24_MonarchPerceivesAll ==
    (walk.saw.looked /\ walk.character.advancementTier = "Monarch") => walk.saw.perceived

\* C30: from a non-negative seed the generator's state after every draw is
\* in 0..233279 and comes back to the state after the first draw only after
\* 233280 more draws, that is after every value of 0..233279 was visited;
\* repeated roll(20, 1, 0) calls eventually return a natural 20 and
\* eventually a natural 1.
C30_FullPeriod ==
    /\ []((nrolls >= 1) =>
             /\ gens.engines[1] \in 0..(Period - 1)
             /\ (nrolls > 1 /\ gens.engines[1] = NextSeed(gens.seed)) =>
                    nrolls = Period + 1)
    /\ <>(rolled # <<>> /\ rolled[1].criticalHit)
    /\ <>(rolled # <<>> /\ rolled[1].criticalFail)

\* C30 witness: after 233280 draws more the generator is back at the state
\* of the first draw
C30_Witness ==
    /\ nrolls = Period + 1
    /\ gens.engines[1] = NextSeed(gens.seed)

====
